---- MODULE Spec2Model ----
(***************************************************************************)
(* State-machine model of the voxel renderer's post-processing pipeline:   *)
(* WgpuCtx::resize / WgpuCtx::draw (src/src/wgpu_ctx.rs), BloomEffect      *)
(* (src/src/bloom.rs) and ColorCorrectionEffect                            *)
(* (src/src/color_correction.rs), driven by the window events of           *)
(* App::window_event (src/src/app.rs).                                     *)
(*                                                                         *)
(* GPU resources are modelled by what the code asks for: a texture is the  *)
(* descriptor it was created with plus the generation (number of resize    *)
(* calls started so far) that created it, a view names its texture and     *)
(* base mip level, a bind group is the views bound to its slots, and the   *)
(* command encoder is the sequence of passes recorded into it.             *)
(***************************************************************************)
EXTENDS Integers, Sequences, FiniteSets, TLC

\* ------------------------------------------------------------------ bounds
\* Number of Resized events delivered to the window.
MaxResizes == 2

\* ------------------------------------------------------- program constants
\* bloom.rs:56  let max_level = 8;
max_level == 8
\* app.rs:37  with_inner_size(PhysicalSize::new(800, 800))
InitialWidth == 800
InitialHeight == 800
\* bloom.rs:520  (dim + 7) / 8 : the 8x8 workgroup tile
TileSize == 8

\* Readings of the monotonic clock (Instant::now()).
Instants == {0, 1}

\* Values the "Voxel Level" slider (range 1..7) may hold after the UI is built.
SliderLevels == {3, 6}

\* Values of ui.mouse_cursor(): Option<MouseCursor>.
MouseCursors == {"None", "Arrow"}

\* Widths and heights a Resized event may carry (app.rs:87).
WindowDims == {0, 1, 2, 3, 27, 800}

\* ----------------------------------------------------------------- helpers
\* u32::max as used by `.max(1)`
Max(a, b) == IF a >= b THEN a ELSE b

\* u32 `x >> n` (n < 32, no overflow in the modelled range)
RECURSIVE Shr(_, _)
Shr(x, n) == IF n = 0 THEN x ELSE Shr(x \div 2, n - 1)

\* Mutant: the workgroup count is rounded down, dropping the partial tile.
DispatchCount_RoundsDown(dim) == dim \div TileSize

\* `(dim + 7) / 8` of bloom.rs:520-521, 536-537, 545-546, 648-649
DispatchCount(dim) == (dim + (TileSize - 1)) \div TileSize

\* Mutant: the level dimension is not clamped to 1.
MipDim_NotClamped(half, i) == Shr(half, i)

\* `(self.half_width >> i).max(1)` of bloom.rs:534-535, 543-544
MipDim(half, i) == Max(Shr(half, i), 1)

\* A texture as created by device.create_texture: its descriptor and the
\* generation that allocated it.
Texture(label, g, width, height, mips) ==
    [label |-> label, gen |-> g, width |-> width, height |-> height,
     mip_level_count |-> mips]

\* texture.create_view(...) : the view of one texture starting at one level.
View(tex, level) ==
    [label |-> tex.label, gen |-> tex.gen, base_mip_level |-> level]

NoView == [label |-> "none", gen |-> 0, base_mip_level |-> 0]

\* device.create_texture validates the descriptor; a zero extent or a zero
\* mip count is a validation error, which the default uncaptured-error
\* handler turns into a panic (no error scope is installed anywhere).
TextureDescriptorValid(width, height, mips) ==
    width >= 1 /\ height >= 1 /\ mips >= 1

\* bloom.rs:654-675
create_mip_texture(g, width, height, mip_count, label) ==
    Texture(label, g, width, height, mip_count)

\* bloom.rs:677-688
create_mip_views(texture, mip_count) ==
    [level1 \in 1..mip_count |-> View(texture, level1 - 1)]

\* One group-1 bind group: binding 0 is sampled, binding 1 is the storage
\* texture written (layout at bloom.rs:114-138).
BindGroup(read, write) == [binding0 |-> read, binding1 |-> write]

\* Mutant: the downsample bind group of level i samples level i itself
\* instead of level i-1.
DownsampleBindGroups_ReadsOwnLevel(downsample_views, levels) ==
    [k \in 1..(levels - 1) |->
        BindGroup(downsample_views[k + 1], downsample_views[k + 1])]

\* bloom.rs:164-185 and 419-440 : (1..max_level).map(|i| views[i-1] -> views[i])
DownsampleBindGroups(downsample_views, levels) ==
    [k \in 1..(levels - 1) |->
        BindGroup(downsample_views[(k - 1) + 1], downsample_views[k + 1])]

\* Mutant: the horizontal-blur set is built over 1..max_level and lacks one
\* bind group.
HorizontalBlurBindGroups_OneShort(downsample_views, horizontal_blur_views, levels) ==
    [k \in 1..(levels - 1) |-> BindGroup(downsample_views[k], horizontal_blur_views[k])]

\* bloom.rs:187-208 and 442-463 : (0..max_level).map(|i| downsample[i] -> horizontal[i])
HorizontalBlurBindGroups(downsample_views, horizontal_blur_views, levels) ==
    [k \in 1..levels |-> BindGroup(downsample_views[k], horizontal_blur_views[k])]

\* Mutant: the vertical blur works in place on the horizontal chain.
VerticalBlurBindGroups_InPlace(horizontal_blur_views, vertical_blur_views, levels) ==
    [k \in 1..levels |-> BindGroup(horizontal_blur_views[k], horizontal_blur_views[k])]

\* bloom.rs:210-231 and 465-486 : (0..max_level).map(|i| horizontal[i] -> vertical[i])
VerticalBlurBindGroups(horizontal_blur_views, vertical_blur_views, levels) ==
    [k \in 1..levels |-> BindGroup(horizontal_blur_views[k], vertical_blur_views[k])]

\* Mutant: the half resolution is rounded up instead of down.
HalfDim_RoundsUp(dim) == (dim + 1) \div 2

\* `width / 2` of bloom.rs:57-58 and 389-390
HalfDim(dim) == dim \div 2

\* BloomEffect::new, bloom.rs:46-385, for valid dimensions.
BloomEffectNew(g, width, height) ==
    LET hw == HalfDim(width)
        hh == HalfDim(height)
        dt == create_mip_texture(g, hw, hh, max_level, "downsample")
        ht == create_mip_texture(g, hw, hh, max_level, "horizontal_blur")
        vt == create_mip_texture(g, hw, hh, max_level, "vertical_blur")
        dv == create_mip_views(dt, max_level)
        hv == create_mip_views(ht, max_level)
        vv == create_mip_views(vt, max_level)
    IN  [max_level |-> max_level,
         full_width |-> width, full_height |-> height,
         half_width |-> hw, half_height |-> hh,
         downsample_texture |-> dt,
         horizontal_blur_texture |-> ht,
         vertical_blur_texture |-> vt,
         downsample_views |-> dv,
         horizontal_blur_views |-> hv,
         vertical_blur_views |-> vv,
         downsample_bind_groups |-> DownsampleBindGroups(dv, max_level),
         horizontal_blur_bind_groups |-> HorizontalBlurBindGroups(dv, hv, max_level),
         vertical_blur_bind_groups |-> VerticalBlurBindGroups(hv, vv, max_level)]

\* ColorCorrectionEffect::new / ::resize bind group, color_correction.rs:123-140, 153-172
ColorCorrectionBindGroup(input_texture_view) == [binding0 |-> input_texture_view]

\* 2.0f32.powf(-voxel_level as f32), kept as base and exponent
VoxelSize(voxel_level) == [base |-> 2, exponent |-> 0 - voxel_level]

\* VoxelSettings::default, wgpu_ctx.rs:55-91 (the fields the UI can reach and
\* one it cannot)
VoxelSettingsDefault ==
    [voxel_level |-> 3, voxel_size |-> VoxelSize(3), steps |-> 512 * 2 * 2]

\* VoxelSettings::update_voxel_size, wgpu_ctx.rs:95-97
update_voxel_size(settings) ==
    [settings EXCEPT !.voxel_size = VoxelSize(settings.voxel_level)]

\* Physical keys a KeyboardInput event may carry (winit KeyCode). Escape is
\* also the logical key Key::Named(NamedKey::Escape) tested at app.rs:109.
KeyCodes == {"KeyW", "Escape"}

\* Buttons a MouseInput event may carry (winit MouseButton).
MouseButtons == {"Left"}

\* winit ElementState
ElementStates == {"Pressed", "Released"}

\* Input::new, input.rs:19-21 : four empty HashMaps. A map is a function
\* whose value "None" stands for an absent key (HashMap::get returns None).
InputNew ==
    [keys_current |-> [key \in KeyCodes |-> "None"],
     keys_previous |-> [key \in KeyCodes |-> "None"],
     mouse_buttons_current |-> [button \in MouseButtons |-> "None"],
     mouse_buttons_previous |-> [button \in MouseButtons |-> "None"]]

\* History of the calls made on input_system: the state last given to
\* handle_key_input / handle_mouse_button per key / button, those states as
\* they were at the last update(), whether update() was the last call, and
\* the state of the last KeyboardInput event the window delivered per key.
InputHistoryNew ==
    [key_latest |-> [key \in KeyCodes |-> "None"],
     key_snapshot |-> [key \in KeyCodes |-> "None"],
     mouse_latest |-> [button \in MouseButtons |-> "None"],
     mouse_snapshot |-> [button \in MouseButtons |-> "None"],
     key_delivered |-> [key \in KeyCodes |-> "None"],
     keys_fresh |-> FALSE,
     mouse_fresh |-> FALSE]

\* Input::handle_key_input, input.rs:23-25
handle_key_input(input, key, state) ==
    [input EXCEPT !.keys_current[key] = state]

\* Input::handle_mouse_button, input.rs:27-29
handle_mouse_button(input, button, state) ==
    [input EXCEPT !.mouse_buttons_current[button] = state]

\* Mutant: update() snapshots the keys but not the mouse buttons.
update_KeepsMouseSnapshot(input) ==
    [input EXCEPT !.keys_previous = input.keys_current]

\* Input::update, input.rs:44-49 (the deltas it resets are not modelled)
update(input) ==
    [input EXCEPT !.keys_previous = input.keys_current,
                  !.mouse_buttons_previous = input.mouse_buttons_current]

\* input.rs:52-55
is_key_pressed(input, key) ==
    input.keys_current[key] = "Pressed" /\ input.keys_previous[key] # "Pressed"

\* input.rs:57-60
is_key_released(input, key) ==
    input.keys_current[key] = "Released" /\ input.keys_previous[key] = "Pressed"

\* input.rs:62-64
is_key_down(input, key) == input.keys_current[key] = "Pressed"

\* input.rs:67-70
is_mouse_button_pressed(input, button) ==
    /\ input.mouse_buttons_current[button] = "Pressed"
    /\ input.mouse_buttons_previous[button] # "Pressed"

\* input.rs:72-75
is_mouse_button_released(input, button) ==
    /\ input.mouse_buttons_current[button] = "Released"
    /\ input.mouse_buttons_previous[button] = "Pressed"

\* input.rs:77-79
is_mouse_button_down(input, button) == input.mouse_buttons_current[button] = "Pressed"

\* One operation handed to the wgpu::Queue: a buffer write (queue.write_buffer)
\* or the submission of a command stream (queue.submit).
WriteBuffer(buffer, data) ==
    [op |-> "write_buffer", buffer |-> buffer, data |-> data, commands |-> << >>]
Submit(commands) ==
    [op |-> "submit", buffer |-> "none", data |-> << >>, commands |-> commands]

\* The value draw passes to ColorCorrectionEffect::update_uniform, wgpu_ctx.rs:945-950
ColorCorrectionUniform == [brightness |-> 1, contrast |-> 1, saturation |-> 1]

\* The CameraUniform built by WgpuCtx::update_camera_uniform, wgpu_ctx.rs:804-810,
\* from the camera's matrices and the elapsed time (values not interpreted).
CameraUniform ==
    [view_proj |-> "view_proj", inv_view_proj |-> "inv_view_proj", view |-> "view",
     position |-> "position", time |-> "time.elapsed"]

\* One entry of the per-handler call trace.
Call(fn, width, height, mip_count, view) ==
    [fn |-> fn, width |-> width, height |-> height, mip_count |-> mip_count,
     view |-> view]

\* ------------------------------------------------------------------- state
VARIABLES
    pc,                       \* position of the event-loop thread
    gen,                      \* number of WgpuCtx::resize calls started
    new_size,                 \* argument of the resize in progress / last resize
    before_resize,            \* history: size and bloom_effect on entry to that resize
    surface_config,           \* WgpuCtx.surface_config (width, height)
    surface_configured,       \* size last passed to surface.configure
    depth_texture,            \* WgpuCtx.depth_texture (+ its view)
    render_texture,           \* WgpuCtx.render_texture (+ render_texture_view)
    post_process_texture,     \* WgpuCtx.post_process_texture (+ its view)
    bloom_effect,             \* WgpuCtx.bloom_effect
    color_correction_effect,  \* WgpuCtx.color_correction_effect
    calls,                    \* resource calls of construction or of the last resize
    fatal,                    \* a panic has unwound the event loop
    i,                        \* loop variable of BloomEffect::render
    surface_texture,          \* "none" | "acquired" | "presented"
    encoder,                  \* passes recorded into the frame's CommandEncoder
    queue,                    \* operations handed to the wgpu::Queue this frame
    presents,                 \* surface_texture.present() calls this frame
    imgui,                    \* WgpuCtx.imgui: last_frame, last_cursor
    voxel_settings,           \* WgpuCtx.voxel_settings
    voxel_settings_buffer,    \* contents of WgpuCtx.voxel_settings_buffer
    input_system,             \* App.input_system: the four maps of Input
    input_history             \* history: what the handlers of input_system were given

vars == <<pc, gen, new_size, before_resize, surface_config, surface_configured, depth_texture,
          render_texture, post_process_texture, bloom_effect,
          color_correction_effect, calls, fatal, i, surface_texture, encoder,
          queue, presents, imgui, voxel_settings, voxel_settings_buffer,
          input_system, input_history>>

inputVars == <<input_system, input_history>>
uiVars == <<imgui, voxel_settings, voxel_settings_buffer>>
frameVars == <<i, surface_texture, encoder, queue, presents>>
ctxVars == <<surface_config, surface_configured, depth_texture, render_texture,
             post_process_texture, bloom_effect, color_correction_effect>>

render_texture_view == View(render_texture, 0)
post_process_texture_view == View(post_process_texture, 0)
depth_texture_view == View(depth_texture, 0)

\* WgpuCtx::new_async, wgpu_ctx.rs:225-229, 592-593, 621-683, on the window
\* App::resumed creates (app.rs:35-41).
Init ==
    LET width == Max(InitialWidth, 1)
        height == Max(InitialHeight, 1)
    IN  /\ pc = "idle"
        /\ gen = 0
        /\ new_size = <<InitialWidth, InitialHeight>>
        /\ before_resize = [new_size |-> <<InitialWidth, InitialHeight>>,
                            bloom_effect |-> BloomEffectNew(0, width, height)]
        /\ surface_config = [width |-> width, height |-> height]
        /\ surface_configured = [width |-> width, height |-> height]
        /\ depth_texture = Texture("depth", 0, width, height, 1)
        /\ render_texture = Texture("render", 0, width, height, 1)
        /\ post_process_texture = Texture("post_process", 0, width, height, 1)
        /\ bloom_effect = BloomEffectNew(0, width, height)
        /\ color_correction_effect =
             [bind_group |->
                ColorCorrectionBindGroup(View(Texture("post_process", 0, width, height, 1), 0))]
        /\ calls = [k \in 1..3 |->
                       Call("create_mip_texture", HalfDim(width), HalfDim(height), max_level, NoView)]
        /\ fatal = FALSE
        /\ i = 0
        /\ surface_texture = "none"
        /\ encoder = << >>
        /\ queue = << >>
        /\ presents = 0
        /\ imgui = [last_frame |-> 0, last_cursor |-> "None"]
        /\ voxel_settings = VoxelSettingsDefault
        /\ voxel_settings_buffer = VoxelSettingsDefault
        /\ input_system = InputNew
        /\ input_history = InputHistoryNew

\* ------------------------------------------------------- WgpuCtx::resize
\* Mutant: the handler only reconfigures the surface and returns; the
\* targets and components keep their old size.
Resized_OnlyReconfigures(width, height) ==
    /\ pc = "idle"
    /\ gen < MaxResizes
    /\ gen' = gen + 1
    /\ new_size' = <<width, height>>
    /\ before_resize' = [new_size |-> new_size, bloom_effect |-> bloom_effect]
    /\ surface_config' = [width |-> Max(width, 1), height |-> Max(height, 1)]
    /\ surface_configured' = surface_config'
    /\ calls' = << Call("surface.configure", Max(width, 1), Max(height, 1), 0, NoView) >>
    /\ pc' = "idle"
    /\ i' = 0
    /\ surface_texture' = "none"
    /\ encoder' = << >>
    /\ queue' = << >>
    /\ presents' = 0
    /\ UNCHANGED <<inputVars, uiVars, depth_texture, render_texture, post_process_texture,
                   bloom_effect, color_correction_effect, fatal>>

\* app.rs:87-91 -> wgpu_ctx.rs:823-827
Resized(width, height) ==
    /\ pc = "idle"
    /\ gen < MaxResizes
    /\ gen' = gen + 1
    /\ new_size' = <<width, height>>
    /\ before_resize' = [new_size |-> new_size, bloom_effect |-> bloom_effect]
    /\ surface_config' = [width |-> Max(width, 1), height |-> Max(height, 1)]
    /\ surface_configured' = surface_config'
    /\ calls' = << Call("surface.configure", Max(width, 1), Max(height, 1), 0, NoView) >>
    /\ pc' = "resize_depth"
    /\ i' = 0
    /\ surface_texture' = "none"
    /\ encoder' = << >>
    /\ queue' = << >>
    /\ presents' = 0
    /\ UNCHANGED <<inputVars, uiVars, depth_texture, render_texture, post_process_texture,
                   bloom_effect, color_correction_effect, fatal>>

\* Mutant: the components are resized before the scene and post-process
\* targets have been recreated.
ResizeDepthTexture_ThenComponents ==
    /\ pc = "resize_depth"
    /\ depth_texture' = Texture("depth", gen, surface_config.width, surface_config.height, 1)
    /\ calls' = Append(calls, Call("create_depth_texture", surface_config.width,
                                   surface_config.height, 1, NoView))
    /\ pc' = "resize_bloom"
    /\ UNCHANGED <<inputVars, uiVars, gen, new_size, before_resize, surface_config, surface_configured, render_texture,
                   post_process_texture, bloom_effect, color_correction_effect,
                   fatal, frameVars>>

\* wgpu_ctx.rs:829-832
ResizeDepthTexture ==
    /\ pc = "resize_depth"
    /\ depth_texture' = Texture("depth", gen, surface_config.width, surface_config.height, 1)
    /\ calls' = Append(calls, Call("create_depth_texture", surface_config.width,
                                   surface_config.height, 1, NoView))
    /\ pc' = "resize_render_texture"
    /\ UNCHANGED <<inputVars, uiVars, gen, new_size, before_resize, surface_config, surface_configured, render_texture,
                   post_process_texture, bloom_effect, color_correction_effect,
                   fatal, frameVars>>

\* wgpu_ctx.rs:834-852
ResizeRenderTexture ==
    /\ pc = "resize_render_texture"
    /\ render_texture' = Texture("render", gen, surface_config.width, surface_config.height, 1)
    /\ calls' = Append(calls, Call("create_render_texture", surface_config.width,
                                   surface_config.height, 1, NoView))
    /\ pc' = "resize_post_process_texture"
    /\ UNCHANGED <<inputVars, uiVars, gen, new_size, before_resize, surface_config, surface_configured, depth_texture,
                   post_process_texture, bloom_effect, color_correction_effect,
                   fatal, frameVars>>

\* wgpu_ctx.rs:854-872
ResizePostProcessTexture ==
    /\ pc = "resize_post_process_texture"
    /\ post_process_texture' =
         Texture("post_process", gen, surface_config.width, surface_config.height, 1)
    /\ calls' = Append(calls, Call("create_post_process_texture", surface_config.width,
                                   surface_config.height, 1, NoView))
    /\ pc' = "resize_bloom"
    /\ UNCHANGED <<inputVars, uiVars, gen, new_size, before_resize, surface_config, surface_configured, depth_texture,
                   render_texture, bloom_effect, color_correction_effect,
                   fatal, frameVars>>

\* wgpu_ctx.rs:874-878 -> bloom.rs:386-390
BloomResizeDims ==
    /\ pc = "resize_bloom"
    /\ bloom_effect' = [bloom_effect EXCEPT
                          !.full_width = surface_config.width,
                          !.full_height = surface_config.height,
                          !.half_width = HalfDim(surface_config.width),
                          !.half_height = HalfDim(surface_config.height)]
    /\ calls' = Append(calls, Call("bloom_effect.resize", surface_config.width,
                                   surface_config.height, 0, render_texture_view))
    /\ pc' = "bloom_resize_downsample_texture"
    /\ UNCHANGED <<inputVars, uiVars, gen, new_size, before_resize, surface_config, surface_configured, depth_texture,
                   render_texture, post_process_texture, color_correction_effect,
                   fatal, frameVars>>

\* One `self.<field> = create_mip_texture(&self.device, self.half_width,
\* self.half_height, self.max_level, label)` statement of bloom.rs:392-412.
\* The call panics inside device.create_texture on an invalid descriptor,
\* before the field is assigned.
BloomResizeTexture(field, label, from, to) ==
    /\ pc = from
    /\ calls' = Append(calls, Call("create_mip_texture", bloom_effect.half_width,
                                   bloom_effect.half_height, bloom_effect.max_level,
                                   NoView))
    /\ IF TextureDescriptorValid(bloom_effect.half_width, bloom_effect.half_height,
                                 bloom_effect.max_level)
       THEN /\ bloom_effect' = [bloom_effect EXCEPT ![field] =
                   create_mip_texture(gen, bloom_effect.half_width,
                                      bloom_effect.half_height,
                                      bloom_effect.max_level, label)]
            /\ pc' = to
            /\ fatal' = fatal
       ELSE /\ bloom_effect' = bloom_effect
            /\ pc' = "panicked"
            /\ fatal' = TRUE
    /\ UNCHANGED <<inputVars, uiVars, gen, new_size, before_resize, surface_config, surface_configured, depth_texture,
                   render_texture, post_process_texture, color_correction_effect,
                   frameVars>>

\* bloom.rs:392-398
BloomResizeDownsampleTexture ==
    BloomResizeTexture("downsample_texture", "downsample",
                       "bloom_resize_downsample_texture",
                       "bloom_resize_horizontal_blur_texture")

\* bloom.rs:399-405
BloomResizeHorizontalBlurTexture ==
    BloomResizeTexture("horizontal_blur_texture", "horizontal_blur",
                       "bloom_resize_horizontal_blur_texture",
                       "bloom_resize_vertical_blur_texture")

\* Mutant: the vertical-blur chain is not recreated by resize.
BloomResizeVerticalBlurTexture_KeepsOld ==
    /\ pc = "bloom_resize_vertical_blur_texture"
    /\ pc' = "bloom_resize_views"
    /\ UNCHANGED <<inputVars, uiVars, gen, new_size, before_resize, ctxVars, calls, fatal, frameVars>>

\* bloom.rs:406-412
BloomResizeVerticalBlurTexture ==
    BloomResizeTexture("vertical_blur_texture", "vertical_blur",
                       "bloom_resize_vertical_blur_texture",
                       "bloom_resize_views")

\* bloom.rs:414-417
BloomResizeViews ==
    /\ pc = "bloom_resize_views"
    /\ bloom_effect' = [bloom_effect EXCEPT
          !.downsample_views =
              create_mip_views(bloom_effect.downsample_texture, bloom_effect.max_level),
          !.horizontal_blur_views =
              create_mip_views(bloom_effect.horizontal_blur_texture, bloom_effect.max_level),
          !.vertical_blur_views =
              create_mip_views(bloom_effect.vertical_blur_texture, bloom_effect.max_level)]
    /\ pc' = "bloom_resize_downsample_bind_groups"
    /\ UNCHANGED <<inputVars, uiVars, gen, new_size, before_resize, surface_config, surface_configured, depth_texture,
                   render_texture, post_process_texture, color_correction_effect,
                   calls, fatal, frameVars>>

\* Mutant: resize extends the downsample bind-group vector instead of
\* replacing it.
BloomResizeDownsampleBindGroups_Extends ==
    /\ pc = "bloom_resize_downsample_bind_groups"
    /\ bloom_effect' = [bloom_effect EXCEPT !.downsample_bind_groups =
          bloom_effect.downsample_bind_groups
          \o DownsampleBindGroups(bloom_effect.downsample_views, bloom_effect.max_level)]
    /\ pc' = "bloom_resize_horizontal_blur_bind_groups"
    /\ UNCHANGED <<inputVars, uiVars, gen, new_size, before_resize, surface_config, surface_configured,
                   depth_texture, render_texture, post_process_texture,
                   color_correction_effect, calls, fatal, frameVars>>

\* bloom.rs:419-440
BloomResizeDownsampleBindGroups ==
    /\ pc = "bloom_resize_downsample_bind_groups"
    /\ bloom_effect' = [bloom_effect EXCEPT !.downsample_bind_groups =
          DownsampleBindGroups(bloom_effect.downsample_views, bloom_effect.max_level)]
    /\ pc' = "bloom_resize_horizontal_blur_bind_groups"
    /\ UNCHANGED <<inputVars, uiVars, gen, new_size, before_resize, surface_config, surface_configured, depth_texture,
                   render_texture, post_process_texture, color_correction_effect,
                   calls, fatal, frameVars>>

\* bloom.rs:442-463
BloomResizeHorizontalBlurBindGroups ==
    /\ pc = "bloom_resize_horizontal_blur_bind_groups"
    /\ bloom_effect' = [bloom_effect EXCEPT !.horizontal_blur_bind_groups =
          HorizontalBlurBindGroups(bloom_effect.downsample_views,
                                   bloom_effect.horizontal_blur_views,
                                   bloom_effect.max_level)]
    /\ pc' = "bloom_resize_vertical_blur_bind_groups"
    /\ UNCHANGED <<inputVars, uiVars, gen, new_size, before_resize, surface_config, surface_configured, depth_texture,
                   render_texture, post_process_texture, color_correction_effect,
                   calls, fatal, frameVars>>

\* bloom.rs:465-487
BloomResizeVerticalBlurBindGroups ==
    /\ pc = "bloom_resize_vertical_blur_bind_groups"
    /\ bloom_effect' = [bloom_effect EXCEPT !.vertical_blur_bind_groups =
          VerticalBlurBindGroups(bloom_effect.horizontal_blur_views,
                                 bloom_effect.vertical_blur_views,
                                 bloom_effect.max_level)]
    /\ pc' = "resize_color_correction"
    /\ UNCHANGED <<inputVars, uiVars, gen, new_size, before_resize, surface_config, surface_configured, depth_texture,
                   render_texture, post_process_texture, color_correction_effect,
                   calls, fatal, frameVars>>

\* Mutant: the colour-correction bind group is not rebuilt on resize.
ResizeColorCorrection_KeepsBindGroup ==
    /\ pc = "resize_color_correction"
    /\ calls' = Append(calls, Call("color_correction_effect.resize", 0, 0, 0,
                                   post_process_texture_view))
    /\ pc' = "idle"
    /\ UNCHANGED <<inputVars, uiVars, gen, new_size, before_resize, ctxVars, fatal, frameVars>>

\* wgpu_ctx.rs:879-881 -> color_correction.rs:153-172
ResizeColorCorrection ==
    /\ pc = "resize_color_correction"
    /\ color_correction_effect' =
         [color_correction_effect EXCEPT
            !.bind_group = ColorCorrectionBindGroup(post_process_texture_view)]
    /\ calls' = Append(calls, Call("color_correction_effect.resize", 0, 0, 0,
                                   post_process_texture_view))
    /\ pc' = "idle"
    /\ UNCHANGED <<inputVars, uiVars, gen, new_size, before_resize, surface_config, surface_configured, depth_texture,
                   render_texture, post_process_texture, bloom_effect,
                   fatal, frameVars>>

\* --------------------------------------------------------- WgpuCtx::draw
\* One pass recorded into the command encoder. `load` is the colour
\* attachment's LoadOp ("clear" | "load"; "none" for a compute pass),
\* `depth_load` the depth attachment's; mip_width/mip_height are the
\* dimensions the dispatch was computed from and x, y, z the workgroup counts
\* (0 for render passes); slots is the group-2 bind group of the composite
\* pass (binding slot -> view), empty for every other pass.
Pass(kind, level, reads, writes, load, depth_load, mip_width, mip_height, x, y, z) ==
    [kind |-> kind, level |-> level, reads |-> reads, writes |-> writes,
     load |-> load, depth_load |-> depth_load,
     mip_width |-> mip_width, mip_height |-> mip_height,
     x |-> x, y |-> y, z |-> z, slots |-> << >>]

\* A compute pass dispatched over mip_width x mip_height texels with one
\* group-1 bind group: cpass.dispatch_workgroups((w + 7) / 8, (h + 7) / 8, 1).
ComputePass(kind, level, bind_group, mip_width, mip_height) ==
    Pass(kind, level, {bind_group.binding0}, {bind_group.binding1}, "none", "none",
         mip_width, mip_height,
         DispatchCount(mip_width), DispatchCount(mip_height), 1)

\* The view of the swap-chain texture acquired for the frame, wgpu_ctx.rs:885-891
surface_texture_view == [label |-> "surface", gen |-> gen, base_mip_level |-> 0]

\* Mutant: the handler draws without updating the camera uniforms.
RedrawRequested_NoCameraUpdate ==
    /\ pc = "idle"
    /\ surface_texture' = "acquired"
    /\ encoder' = << >>
    /\ queue' = << >>
    /\ presents' = 0
    /\ i' = 0
    /\ pc' = "draw_scene"
    /\ UNCHANGED <<inputVars, uiVars, gen, new_size, before_resize, ctxVars, calls, fatal>>

\* app.rs:120-151 : update the camera system and write the camera uniforms
\* (wgpu_ctx.rs:797-816, queue.write_buffer on camera_buffer), then call draw
\* -> wgpu_ctx.rs:884-894 : acquire the surface texture and create the
\* frame's command encoder.
RedrawRequested ==
    /\ pc = "idle"
    /\ surface_texture' = "acquired"
    /\ encoder' = << >>
    /\ queue' = << WriteBuffer("camera_buffer", CameraUniform) >>
    /\ presents' = 0
    /\ i' = 0
    /\ pc' = "draw_scene"
    /\ UNCHANGED <<inputVars, uiVars, gen, new_size, before_resize, ctxVars, calls, fatal>>

\* wgpu_ctx.rs:896-935 : the scene render pass
ScenePass ==
    Pass("scene", 0, {}, {render_texture_view, depth_texture_view},
         "clear", "clear", 0, 0, 0, 0, 0)

\* Mutant: the frame goes from the scene pass straight to the composite,
\* leaving out the call of BloomEffect::render.
DrawScenePass_SkipsBloomRender ==
    /\ pc = "draw_scene"
    /\ encoder' = Append(encoder, ScenePass)
    /\ pc' = "bloom_apply"
    /\ UNCHANGED <<inputVars, uiVars, gen, new_size, before_resize, ctxVars, calls, fatal, i, surface_texture,
                   queue, presents>>

DrawScenePass ==
    /\ pc = "draw_scene"
    /\ encoder' = Append(encoder, ScenePass)
    /\ pc' = "bloom_prefilter"
    /\ UNCHANGED <<inputVars, uiVars, gen, new_size, before_resize, ctxVars, calls, fatal, i, surface_texture,
                   queue, presents>>

\* Mutant: the prefilter writes level 1 of the downsample chain and leaves
\* level 0 unwritten.
PrefilterPass_WritesLevel1(scene_texture_view) ==
    ComputePass("prefilter", 0,
                BindGroup(scene_texture_view, bloom_effect.downsample_views[1 + 1]),
                bloom_effect.half_width, bloom_effect.half_height)

\* bloom.rs:494-523, called from wgpu_ctx.rs:938-939 with the scene view
PrefilterPass(scene_texture_view) ==
    ComputePass("prefilter", 0,
                BindGroup(scene_texture_view, bloom_effect.downsample_views[0 + 1]),
                bloom_effect.half_width, bloom_effect.half_height)

\* Mutant: the blur loop runs before the downsample loop has written the levels.
BloomRenderPrefilter_BlursFirst ==
    /\ pc = "bloom_prefilter"
    /\ encoder' = Append(encoder, PrefilterPass(render_texture_view))
    /\ pc' = "bloom_horizontal_blur"
    /\ i' = 0
    /\ UNCHANGED <<inputVars, uiVars, gen, new_size, before_resize, ctxVars, calls, fatal, surface_texture,
                   queue, presents>>

BloomRenderPrefilter ==
    /\ pc = "bloom_prefilter"
    /\ encoder' = Append(encoder, PrefilterPass(render_texture_view))
    /\ IF 1 < bloom_effect.max_level
       THEN pc' = "bloom_downsample" /\ i' = 1
       ELSE pc' = "bloom_horizontal_blur" /\ i' = 0
    /\ UNCHANGED <<inputVars, uiVars, gen, new_size, before_resize, ctxVars, calls, fatal, surface_texture,
                   queue, presents>>

\* bloom.rs:526-539 : one iteration of `for i in 1..self.max_level`
DownsamplePass(level) ==
    ComputePass("downsample", level,
                bloom_effect.downsample_bind_groups[(level - 1) + 1],
                MipDim(bloom_effect.half_width, level),
                MipDim(bloom_effect.half_height, level))

\* Mutant: a level already clamped to 1x1 is not downsampled again.
BloomRenderDownsample_SkipsClamped ==
    /\ pc = "bloom_downsample"
    /\ encoder' = IF /\ MipDim(bloom_effect.half_width, i) = 1
                     /\ MipDim(bloom_effect.half_height, i) = 1
                  THEN encoder
                  ELSE Append(encoder, DownsamplePass(i))
    /\ IF i + 1 < bloom_effect.max_level
       THEN pc' = "bloom_downsample" /\ i' = i + 1
       ELSE pc' = "bloom_horizontal_blur" /\ i' = 0
    /\ UNCHANGED <<inputVars, uiVars, gen, new_size, before_resize, ctxVars, calls, fatal, surface_texture,
                   queue, presents>>

BloomRenderDownsample ==
    /\ pc = "bloom_downsample"
    /\ encoder' = Append(encoder, DownsamplePass(i))
    /\ IF i + 1 < bloom_effect.max_level
       THEN pc' = "bloom_downsample" /\ i' = i + 1
       ELSE pc' = "bloom_horizontal_blur" /\ i' = 0
    /\ UNCHANGED <<inputVars, uiVars, gen, new_size, before_resize, ctxVars, calls, fatal, surface_texture,
                   queue, presents>>

\* bloom.rs:542-558 : horizontal blur of iteration i of `for i in 0..self.max_level`
HorizontalBlurPass(level) ==
    ComputePass("horizontal_blur", level,
                bloom_effect.horizontal_blur_bind_groups[level + 1],
                MipDim(bloom_effect.half_width, level),
                MipDim(bloom_effect.half_height, level))

\* Mutant: each iteration records the vertical blur first and the horizontal
\* blur after it.
BloomRenderHorizontalBlur_AfterVertical ==
    /\ pc = "bloom_horizontal_blur"
    /\ encoder' = encoder
                  \o << ComputePass("vertical_blur", i,
                                    bloom_effect.vertical_blur_bind_groups[i + 1],
                                    MipDim(bloom_effect.half_width, i),
                                    MipDim(bloom_effect.half_height, i)),
                        HorizontalBlurPass(i) >>
    /\ IF i + 1 < bloom_effect.max_level
       THEN pc' = "bloom_horizontal_blur" /\ i' = i + 1
       ELSE pc' = "bloom_apply" /\ i' = 0
    /\ UNCHANGED <<inputVars, uiVars, gen, new_size, before_resize, ctxVars, calls, fatal,
                   surface_texture, queue, presents>>

BloomRenderHorizontalBlur ==
    /\ pc = "bloom_horizontal_blur"
    /\ encoder' = Append(encoder, HorizontalBlurPass(i))
    /\ pc' = "bloom_vertical_blur"
    /\ UNCHANGED <<inputVars, uiVars, gen, new_size, before_resize, ctxVars, calls, fatal, i, surface_texture,
                   queue, presents>>

\* bloom.rs:560-571 : vertical blur of the same iteration, then the loop test
VerticalBlurPass(level) ==
    ComputePass("vertical_blur", level,
                bloom_effect.vertical_blur_bind_groups[level + 1],
                MipDim(bloom_effect.half_width, level),
                MipDim(bloom_effect.half_height, level))

BloomRenderVerticalBlur ==
    /\ pc = "bloom_vertical_blur"
    /\ encoder' = Append(encoder, VerticalBlurPass(i))
    /\ IF i + 1 < bloom_effect.max_level
       THEN pc' = "bloom_horizontal_blur" /\ i' = i + 1
       ELSE pc' = "bloom_apply" /\ i' = 0
    /\ UNCHANGED <<inputVars, uiVars, gen, new_size, before_resize, ctxVars, calls, fatal, surface_texture,
                   queue, presents>>

\* Mutant: the composite slots are bound coarsest level first.
CompositeGroup2BindGroup_Reversed ==
    [slot \in 0..7 |-> bloom_effect.vertical_blur_views[(7 - slot) + 1]]

\* bloom.rs:596-638 : bindings 0..7 of "Composite Group 2 Bind Group" are
\* vertical_blur_views[0] .. vertical_blur_views[7] (binding 8 is the sampler)
CompositeGroup2BindGroup ==
    [slot \in 0..7 |-> bloom_effect.vertical_blur_views[slot + 1]]

\* Mutant: the composite grid is computed from the half resolution of the chains.
CompositePass_HalfResolutionGrid(target_view, scene_texture_view) ==
    [Pass("composite", 0,
          {scene_texture_view}
          \cup {CompositeGroup2BindGroup[slot] : slot \in DOMAIN CompositeGroup2BindGroup},
          {target_view}, "none", "none",
          bloom_effect.half_width, bloom_effect.half_height,
          DispatchCount(bloom_effect.half_width),
          DispatchCount(bloom_effect.half_height), 1)
     EXCEPT !.slots = CompositeGroup2BindGroup]

\* bloom.rs:574-651, called from wgpu_ctx.rs:940-944 : the composite pass
CompositePass(target_view, scene_texture_view) ==
    [Pass("composite", 0,
          {scene_texture_view}
          \cup {CompositeGroup2BindGroup[slot] : slot \in DOMAIN CompositeGroup2BindGroup},
          {target_view}, "none", "none",
          bloom_effect.full_width, bloom_effect.full_height,
          DispatchCount(bloom_effect.full_width),
          DispatchCount(bloom_effect.full_height), 1)
     EXCEPT !.slots = CompositeGroup2BindGroup]

\* Mutant: the composite writes back into the scene target and the
\* post-process target is never written.
BloomApply_IntoSceneTarget ==
    /\ pc = "bloom_apply"
    /\ encoder' = Append(encoder, CompositePass(render_texture_view, render_texture_view))
    /\ pc' = "color_correction_update_uniform"
    /\ UNCHANGED <<inputVars, uiVars, gen, new_size, before_resize, ctxVars, calls, fatal, i,
                   surface_texture, queue, presents>>

BloomApply ==
    /\ pc = "bloom_apply"
    /\ encoder' = Append(encoder, CompositePass(post_process_texture_view, render_texture_view))
    /\ pc' = "color_correction_update_uniform"
    /\ UNCHANGED <<inputVars, uiVars, gen, new_size, before_resize, ctxVars, calls, fatal, i, surface_texture,
                   queue, presents>>

\* Mutant: the uniform is not written before the pass that reads it is recorded.
ColorCorrectionUpdateUniform_NotIssued ==
    /\ pc = "color_correction_update_uniform"
    /\ pc' = "color_correction_apply"
    /\ UNCHANGED <<inputVars, uiVars, gen, new_size, before_resize, ctxVars, calls, fatal, i,
                   surface_texture, encoder, queue, presents>>

\* wgpu_ctx.rs:945-950 -> color_correction.rs:194-197 : queue.write_buffer
ColorCorrectionUpdateUniform ==
    /\ pc = "color_correction_update_uniform"
    /\ queue' = Append(queue, WriteBuffer("color_correction.uniform_buffer",
                                          ColorCorrectionUniform))
    /\ pc' = "color_correction_apply"
    /\ UNCHANGED <<inputVars, uiVars, gen, new_size, before_resize, ctxVars, calls, fatal, i, surface_texture,
                   encoder, presents>>

\* Mutant: the pass keeps the target's previous content under its draw.
ColorCorrectionPass_Loads(target_view) ==
    Pass("color_correction", 0, {color_correction_effect.bind_group.binding0},
         {target_view}, "load", "none", 0, 0, 0, 0, 0)

\* color_correction.rs:174-192, called from wgpu_ctx.rs:951-952
ColorCorrectionPass(target_view) ==
    Pass("color_correction", 0, {color_correction_effect.bind_group.binding0},
         {target_view}, "clear", "none", 0, 0, 0, 0, 0)

\* The target's pixels, as far as the pass tells them apart: those the
\* four-vertex strip rasterises and those it does not.
Pixels == {"p0", "p1"}

\* What a target can hold before the pass: any colour per pixel.
TargetContents == [Pixels -> {"stale0", "stale1"}]

\* What the texture bound at binding 0 can hold.
InputContents == {"input0", "input1"}

\* Values the uniform buffer can hold when the pass executes: the one every
\* frame writes (equal to the buffer's initial content,
\* color_correction.rs:111-117) and another one a caller of update_uniform
\* (color_correction.rs:194-197) can pass.
UniformContents ==
    {ColorCorrectionUniform, [brightness |-> 2, contrast |-> 1, saturation |-> 1]}

\* The target's content after the commands of a colour-correction pass `p`
\* have executed (color_correction.rs:174-192): the attachment's LoadOp
\* decides what lies under the draw (Clear(BLACK), or the previous content
\* for Load), then `draw(0..4, 0..1)` stores fs_main's colour, a function of
\* the uniform and the input texture, on the pixels `quad` that the strip
\* covers. The pipeline has no blend state (color_correction.rs:94), so a
\* covered pixel is replaced. Which pixels the strip covers is decided by
\* color_correction.wgsl.
ColorCorrectionOutput(p, quad, uniform, input, previous) ==
    [px \in Pixels |->
        IF px \in quad
        THEN <<"fs_main", uniform, input>>
        ELSE IF p.load = "clear" THEN "BLACK" ELSE previous[px]]

ColorCorrectionApply ==
    /\ pc = "color_correction_apply"
    /\ encoder' = Append(encoder, ColorCorrectionPass(surface_texture_view))
    /\ pc' = "imgui_new_frame"
    /\ UNCHANGED <<inputVars, uiVars, gen, new_size, before_resize, ctxVars, calls, fatal, i, surface_texture,
                   queue, presents>>

\* wgpu_ctx.rs:956-968 : the delta time from the monotonic clock, then
\* self.imgui.last_frame = now
ImguiNewFrame(now) ==
    /\ pc = "imgui_new_frame"
    /\ now >= imgui.last_frame
    /\ imgui' = [imgui EXCEPT !.last_frame = now]
    /\ pc' = "imgui_build_ui"
    /\ UNCHANGED <<inputVars, voxel_settings, voxel_settings_buffer, gen, new_size,
                   before_resize, ctxVars, calls, fatal, frameVars>>

\* Mutant: the slider changes the settings but the buffer the shader reads is
\* not rewritten.
ImguiBuildUi_SkipsBufferWrite(level) ==
    /\ pc = "imgui_build_ui"
    /\ IF level # voxel_settings.voxel_level
       THEN voxel_settings' =
               update_voxel_size([voxel_settings EXCEPT !.voxel_level = level])
       ELSE voxel_settings' = voxel_settings
    /\ pc' = "imgui_update_cursor"
    /\ UNCHANGED <<inputVars, imgui, voxel_settings_buffer, gen, new_size,
                   before_resize, ctxVars, calls, fatal, frameVars>>

\* wgpu_ctx.rs:971-1008 : the "Voxel Settings" window. ui.slider writes the
\* slider's value into self.voxel_settings.voxel_level and returns true when
\* the user changed it; the settings are then written to their buffer.
ImguiBuildUi(level) ==
    /\ pc = "imgui_build_ui"
    /\ IF level # voxel_settings.voxel_level
       THEN /\ voxel_settings' =
                 update_voxel_size([voxel_settings EXCEPT !.voxel_level = level])
            /\ queue' = Append(queue, WriteBuffer("voxel_settings_buffer", voxel_settings'))
            /\ voxel_settings_buffer' = voxel_settings'
       ELSE UNCHANGED <<voxel_settings, queue, voxel_settings_buffer>>
    /\ pc' = "imgui_update_cursor"
    /\ UNCHANGED <<inputVars, imgui, gen, new_size, before_resize, ctxVars, calls,
                   fatal, i, surface_texture, encoder, presents>>

\* wgpu_ctx.rs:1010-1014
ImguiUpdateCursor(mouse_cursor) ==
    /\ pc = "imgui_update_cursor"
    /\ IF imgui.last_cursor # mouse_cursor
       THEN imgui' = [imgui EXCEPT !.last_cursor = mouse_cursor]
       ELSE imgui' = imgui
    /\ pc' = "draw_ui"
    /\ UNCHANGED <<inputVars, voxel_settings, voxel_settings_buffer, gen, new_size,
                   before_resize, ctxVars, calls, fatal, frameVars>>

\* Mutant: the overlay pass clears its attachment instead of loading it.
UiPass_Clears ==
    Pass("ui", 0, {}, {surface_texture_view}, "clear", "none", 0, 0, 0, 0, 0)

\* wgpu_ctx.rs:1016-1038 : the ImGui render pass on the surface view
UiPass ==
    Pass("ui", 0, {}, {surface_texture_view}, "load", "none", 0, 0, 0, 0, 0)

DrawUiPass ==
    /\ pc = "draw_ui"
    /\ encoder' = Append(encoder, UiPass)
    /\ pc' = "draw_submit"
    /\ UNCHANGED <<inputVars, uiVars, gen, new_size, before_resize, ctxVars, calls, fatal, i, surface_texture,
                   queue, presents>>

\* wgpu_ctx.rs:1040 : self.queue.submit(Some(encoder.finish()))
DrawSubmit ==
    /\ pc = "draw_submit"
    /\ queue' = Append(queue, Submit(encoder))
    /\ pc' = "draw_present"
    /\ UNCHANGED <<inputVars, uiVars, gen, new_size, before_resize, ctxVars, calls, fatal, i, surface_texture,
                   encoder, presents>>

\* wgpu_ctx.rs:1041 : surface_texture.present(); draw returns and the handler
\* ends with self.input_system.update() (app.rs:153)
DrawPresent ==
    /\ pc = "draw_present"
    /\ surface_texture' = "presented"
    /\ presents' = presents + 1
    /\ input_system' = update(input_system)
    /\ input_history' = [input_history EXCEPT
                            !.key_snapshot = input_history.key_latest,
                            !.mouse_snapshot = input_history.mouse_latest,
                            !.keys_fresh = TRUE,
                            !.mouse_fresh = TRUE]
    /\ pc' = "idle"
    /\ UNCHANGED <<uiVars, gen, new_size, before_resize, ctxVars, calls, fatal, i, encoder, queue>>

Next ==
    \/ \E width \in WindowDims, height \in WindowDims : Resized(width, height)
    \/ ResizeDepthTexture
    \/ ResizeRenderTexture
    \/ ResizePostProcessTexture
    \/ BloomResizeDims
    \/ BloomResizeDownsampleTexture
    \/ BloomResizeHorizontalBlurTexture
    \/ BloomResizeVerticalBlurTexture
    \/ BloomResizeViews
    \/ BloomResizeDownsampleBindGroups
    \/ BloomResizeHorizontalBlurBindGroups
    \/ BloomResizeVerticalBlurBindGroups
    \/ ResizeColorCorrection
    \/ RedrawRequested
    \/ DrawScenePass
    \/ BloomRenderPrefilter
    \/ BloomRenderDownsample
    \/ BloomRenderHorizontalBlur
    \/ BloomRenderVerticalBlur
    \/ BloomApply
    \/ ColorCorrectionUpdateUniform
    \/ ColorCorrectionApply
    \/ \E now \in Instants : ImguiNewFrame(now)
    \/ \E level \in SliderLevels : ImguiBuildUi(level)
    \/ \E mouse_cursor \in MouseCursors : ImguiUpdateCursor(mouse_cursor)
    \/ DrawUiPass
    \/ DrawSubmit
    \/ DrawPresent

Spec == Init /\ [][Next]_vars

\* ------------------------------------------------------------ input events
\* app.rs:103-119 : WindowEvent::KeyboardInput. io.want_capture_keyboard is
\* state of the ImGui context, read here as an input of the event. When it is
\* false an Escape press calls event_loop.exit(), and the key's state is
\* recorded by handle_key_input; when it is true the event is dropped.
KeyboardInput(key, state, want_capture_keyboard) ==
    /\ pc = "idle"
    /\ IF ~want_capture_keyboard
       THEN /\ input_system' = handle_key_input(input_system, key, state)
            /\ pc' = IF key = "Escape" /\ state = "Pressed" THEN "exited" ELSE pc
            /\ input_history' = [input_history EXCEPT !.key_latest[key] = state,
                                                      !.key_delivered[key] = state,
                                                      !.keys_fresh = FALSE]
       ELSE /\ input_history' = [input_history EXCEPT !.key_delivered[key] = state]
            /\ UNCHANGED <<input_system, pc>>
    /\ UNCHANGED <<uiVars, gen, new_size, before_resize, ctxVars, calls, fatal, frameVars>>

\* app.rs:156-163 : WindowEvent::MouseInput
MouseInput(button, state, want_capture_mouse) ==
    /\ pc = "idle"
    /\ IF ~want_capture_mouse
       THEN /\ input_system' = handle_mouse_button(input_system, button, state)
            /\ input_history' = [input_history EXCEPT !.mouse_latest[button] = state,
                                                      !.mouse_fresh = FALSE]
       ELSE UNCHANGED <<input_system, input_history>>
    /\ UNCHANGED <<uiVars, pc, gen, new_size, before_resize, ctxVars, calls, fatal, frameVars>>

\* The event loop at the window's initial size: keyboard and mouse events
\* between frames, and the frames themselves.
NextInput ==
    \/ \E key \in KeyCodes, state \in ElementStates, want_capture_keyboard \in BOOLEAN :
          KeyboardInput(key, state, want_capture_keyboard)
    \/ \E button \in MouseButtons, state \in ElementStates, want_capture_mouse \in BOOLEAN :
          MouseInput(button, state, want_capture_mouse)
    \/ RedrawRequested
    \/ DrawScenePass
    \/ BloomRenderPrefilter
    \/ BloomRenderDownsample
    \/ BloomRenderHorizontalBlur
    \/ BloomRenderVerticalBlur
    \/ BloomApply
    \/ ColorCorrectionUpdateUniform
    \/ ColorCorrectionApply
    \/ \E now \in Instants : ImguiNewFrame(now)
    \/ \E level \in SliderLevels : ImguiBuildUi(level)
    \/ \E mouse_cursor \in MouseCursors : ImguiUpdateCursor(mouse_cursor)
    \/ DrawUiPass
    \/ DrawSubmit
    \/ DrawPresent

SpecInput == Init /\ [][NextInput]_vars

\* ===================================================================== claims
\* Positions of the encoder holding a pass of the given kind and level.
Positions(kind, level) ==
    {k \in DOMAIN encoder : encoder[k].kind = kind /\ encoder[k].level = level}

\* The pass writes the given mip level of the chain with the given label.
WritesLevel(p, label, level) ==
    \E v \in p.writes : v.label = label /\ v.base_mip_level = level

\* BloomEffect::render has returned for the frame in the encoder.
RenderRecorded == \E k \in DOMAIN encoder : encoder[k].kind = "composite"

\* C1: in every frame, the downsample dispatch of level i (1 <= i <= L-1) is
\* recorded strictly after the dispatch that writes downsample level i-1 (the
\* prefilter for level 0, the level i-1 downsample otherwise), and both blur
\* dispatches of level i (0 <= i <= L-1) are recorded strictly after the
\* dispatch that writes downsample level i; every such dispatch is in the
\* frame once render has returned.
C1_BloomPassOrdering ==
    /\ \A k \in DOMAIN encoder :
         /\ encoder[k].kind = "downsample" =>
              /\ encoder[k].level \in 1..(max_level - 1)
              /\ \E j \in 1..(k - 1) :
                   /\ WritesLevel(encoder[j], "downsample", encoder[k].level - 1)
                   /\ encoder[j].level = encoder[k].level - 1
                   /\ encoder[j].kind =
                        IF encoder[k].level = 1 THEN "prefilter" ELSE "downsample"
         /\ encoder[k].kind \in {"horizontal_blur", "vertical_blur"} =>
              /\ encoder[k].level \in 0..(max_level - 1)
              /\ \E j \in 1..(k - 1) :
                   /\ WritesLevel(encoder[j], "downsample", encoder[k].level)
                   /\ encoder[j].kind \in {"prefilter", "downsample"}
    /\ RenderRecorded =>
         /\ \A level \in 1..(max_level - 1) : Positions("downsample", level) # {}
         /\ \A level \in 0..(max_level - 1) :
              /\ Positions("horizontal_blur", level) # {}
              /\ Positions("vertical_blur", level) # {}

\* A frame recorded after a resize, with the last downsample and blur in it.
C1_Witness ==
    /\ gen >= 1
    /\ RenderRecorded
    /\ Positions("downsample", max_level - 1) # {}
    /\ Positions("vertical_blur", max_level - 1) # {}

Kinds == [k \in DOMAIN encoder |-> encoder[k].kind]

IsPrefix(a, b) == Len(a) <= Len(b) /\ \A k \in 1..Len(a) : a[k] = b[k]

IsSubmit(q) == q.op = "submit"
Submits == SelectSeq(queue, IsSubmit)

\* The pass kinds of one frame in the order the claim gives them.
ExpectedFrameKinds ==
    << "scene", "prefilter" >>
    \o [k \in 1..(max_level - 1) |-> "downsample"]
    \o [k \in 1..(2 * max_level) |->
          IF k % 2 = 1 THEN "horizontal_blur" ELSE "vertical_blur"]
    \o << "composite", "color_correction", "ui" >>

\* C2: every draw records scene pass (clearing colour and depth), bloom
\* render (prefilter, downsamples, blurs), bloom apply, colour correction and
\* UI overlay in this order, then submits the one command stream exactly once
\* and then presents exactly once; nothing is recorded after the submit and
\* the present never precedes the submit.
C2_DrawOrder ==
    /\ IsPrefix(Kinds, ExpectedFrameKinds)
    /\ \A k \in DOMAIN encoder :
         encoder[k].kind = "scene" =>
            encoder[k].load = "clear" /\ encoder[k].depth_load = "clear"
    /\ Len(Submits) <= 1
    /\ presents <= 1
    /\ Len(Submits) = 1 =>
         /\ Submits[1].commands = encoder
         /\ Kinds = ExpectedFrameKinds
    /\ presents = 1 => Len(Submits) = 1
    /\ (surface_texture = "presented") <=> (presents = 1)
    /\ (pc = "idle" /\ surface_texture # "none") => presents = 1

\* A draw that has returned, after a resize.
C2_Witness ==
    /\ pc = "idle"
    /\ gen >= 1
    /\ presents = 1
    /\ Len(Submits) = 1
    /\ Len(encoder) = Len(ExpectedFrameKinds)
\* Positions of a command stream whose pass writes a view of the surface texture.
SurfaceWriters(commands) ==
    {k \in DOMAIN commands : \E v \in commands[k].writes : v.label = "surface"}

\* C3: within one frame, no pass recorded after the colour-correction pass
\* clears the view that pass wrote: the UI overlay attaches the same surface
\* view with load semantics, so the submitted stream writes the surface with
\* the colour-correction pass and then draws the UI on top of it.
C3_UiLoadsSurface ==
    /\ \A j \in DOMAIN encoder, k \in DOMAIN encoder :
         (/\ j < k
          /\ encoder[j].kind = "color_correction"
          /\ encoder[j].writes \cap encoder[k].writes # {})
         => encoder[k].load = "load"
    /\ \A k \in DOMAIN encoder :
         encoder[k].kind = "ui" =>
            /\ encoder[k].load = "load"
            /\ \E j \in 1..(k - 1) :
                 /\ encoder[j].kind = "color_correction"
                 /\ encoder[j].writes = encoder[k].writes
    /\ \A q \in DOMAIN Submits :
         LET w == SurfaceWriters(Submits[q].commands)
         IN  /\ Cardinality(w) = 2
             /\ \A k \in w : Submits[q].commands[k].kind \in {"color_correction", "ui"}
             /\ \A k \in w : Submits[q].commands[k].kind = "ui" =>
                   k = Len(Submits[q].commands)

\* A submitted frame holding both the colour-correction and the UI pass.
C3_Witness ==
    /\ Len(Submits) = 1
    /\ \E j \in DOMAIN encoder, k \in DOMAIN encoder :
         /\ j < k
         /\ encoder[j].kind = "color_correction"
         /\ encoder[k].kind = "ui"
         /\ encoder[j].writes = encoder[k].writes

\* Positions of the event-loop thread inside BloomEffect::resize.
BloomResizePcs ==
    {"bloom_resize_downsample_texture", "bloom_resize_horizontal_blur_texture",
     "bloom_resize_vertical_blur_texture", "bloom_resize_views",
     "bloom_resize_downsample_bind_groups",
     "bloom_resize_horizontal_blur_bind_groups",
     "bloom_resize_vertical_blur_bind_groups"}

\* Positions inside WgpuCtx::resize.
ResizePcs ==
    {"resize_depth", "resize_render_texture", "resize_post_process_texture",
     "resize_bloom", "resize_color_correction"} \cup BloomResizePcs

IsResizeStep(c) == c.fn # "create_mip_texture"
\* The calls WgpuCtx::resize itself makes (those made inside BloomEffect::resize left out).
ResizeCalls == SelectSeq(calls, IsResizeStep)

ExpectedResizeCalls ==
    << "surface.configure", "create_depth_texture", "create_render_texture",
       "create_post_process_texture", "bloom_effect.resize",
       "color_correction_effect.resize" >>

\* C4: WgpuCtx::resize reconfigures the surface, recreates the depth target,
\* the scene target and the post-process target, then calls
\* BloomEffect::resize and then ColorCorrectionEffect::resize, in this order,
\* all at the new (clamped) size; the two component resizes receive the views
\* of the targets this resize created.
C4_ResizeOrder ==
    gen >= 1 =>
      LET n == Len(ResizeCalls)
          w == IF new_size[1] >= 1 THEN new_size[1] ELSE 1
          h == IF new_size[2] >= 1 THEN new_size[2] ELSE 1
      IN  /\ n >= 1
          /\ IsPrefix([k \in 1..n |-> ResizeCalls[k].fn], ExpectedResizeCalls)
          /\ \A k \in 1..n : k <= 5 => ResizeCalls[k].width = w /\ ResizeCalls[k].height = h
          /\ surface_configured = [width |-> w, height |-> h]
          /\ IF n >= 2 THEN depth_texture = Texture("depth", gen, w, h, 1)
                       ELSE depth_texture.gen < gen
          /\ IF n >= 3 THEN render_texture = Texture("render", gen, w, h, 1)
                       ELSE render_texture.gen < gen
          /\ IF n >= 4 THEN post_process_texture = Texture("post_process", gen, w, h, 1)
                       ELSE post_process_texture.gen < gen
          /\ n >= 5 =>
               /\ ResizeCalls[5].view =
                    [label |-> "render", gen |-> gen, base_mip_level |-> 0]
               /\ bloom_effect.full_width = w /\ bloom_effect.full_height = h
          /\ IF n >= 6
             THEN /\ ResizeCalls[6].view =
                       [label |-> "post_process", gen |-> gen, base_mip_level |-> 0]
                  /\ color_correction_effect.bind_group.binding0 = ResizeCalls[6].view
             ELSE color_correction_effect.bind_group.binding0.gen < gen
          /\ (pc \notin ResizePcs /\ ~fatal) => n = 6

\* A second resize has run to completion.
C4_Witness ==
    /\ gen = 2
    /\ pc = "idle"
    /\ Len(ResizeCalls) = 6
    /\ new_size = <<27, 3>>
\* Positions of the event-loop thread inside WgpuCtx::draw: the encoder holds
\* the frame being recorded from the current state of the components.
DrawPcs ==
    {"draw_scene", "bloom_prefilter", "bloom_downsample", "bloom_horizontal_blur",
     "bloom_vertical_blur", "bloom_apply", "color_correction_update_uniform",
     "color_correction_apply", "imgui_new_frame", "imgui_build_ui",
     "imgui_update_cursor", "draw_ui", "draw_submit", "draw_present"}

\* C5: resizing from 800x800 to 1x1 completes without a panic or fatal error:
\* half_width and half_height are 0, the chains are recreated with every mip
\* level clamped to 1x1, and a subsequent frame can be drawn.
C5_ResizeTo1x1Completes ==
    (gen = 1 /\ new_size = <<1, 1>> /\ pc \notin ResizePcs) =>
       /\ ~fatal
       /\ pc # "panicked"
       /\ bloom_effect.half_width = 0
       /\ bloom_effect.half_height = 0
       /\ bloom_effect.downsample_texture.gen = gen
       /\ bloom_effect.horizontal_blur_texture.gen = gen
       /\ bloom_effect.vertical_blur_texture.gen = gen
       /\ \A level \in 0..(max_level - 1) :
            /\ MipDim(bloom_effect.half_width, level) = 1
            /\ MipDim(bloom_effect.half_height, level) = 1

\* C6: every create_mip_texture call made by BloomEffect::new or
\* BloomEffect::resize has width >= 1, height >= 1 and levels >= 1.
C6_MipAllocationsPositive ==
    \A k \in DOMAIN calls :
       calls[k].fn = "create_mip_texture" =>
          /\ calls[k].width >= 1
          /\ calls[k].height >= 1
          /\ calls[k].mip_count >= 1

\* max(1, half >> level), written with a power of two.
ClampedMipDim(half, level) ==
    LET d == half \div (2 ^ level) IN IF d < 1 THEN 1 ELSE d

\* The passes of BloomEffect::render that are dispatched per mip level.
MipPassKinds == {"prefilter", "downsample", "horizontal_blur", "vertical_blur"}

\* C7: for W, H >= 2, after new(W, H) or resize(W, H) the stored half_width is
\* W / 2 and half_height is H / 2 (integer division), and the dimensions
\* render uses for mip level i are max(1, half_width >> i) by
\* max(1, half_height >> i).
C7_HalfAndMipDims ==
    (/\ pc \notin ResizePcs
     /\ ~fatal
     /\ surface_config.width >= 2
     /\ surface_config.height >= 2) =>
       /\ 2 * bloom_effect.half_width <= surface_config.width
       /\ surface_config.width < 2 * bloom_effect.half_width + 2
       /\ 2 * bloom_effect.half_height <= surface_config.height
       /\ surface_config.height < 2 * bloom_effect.half_height + 2
       /\ pc \in DrawPcs =>
            \A k \in DOMAIN encoder :
               encoder[k].kind \in MipPassKinds =>
                  /\ encoder[k].mip_width =
                       ClampedMipDim(bloom_effect.half_width, encoder[k].level)
                  /\ encoder[k].mip_height =
                       ClampedMipDim(bloom_effect.half_height, encoder[k].level)

\* A frame recorded after a resize to an odd width, whose deepest level is clamped.
C7_Witness ==
    /\ pc = "draw_present"
    /\ gen >= 1
    /\ surface_config = [width |-> 27, height |-> 3]
    /\ bloom_effect.half_width = 13
    /\ bloom_effect.half_height = 1
    /\ \E k \in DOMAIN encoder :
         /\ encoder[k].kind = "vertical_blur"
         /\ encoder[k].level = 3
         /\ encoder[k].mip_width = 1
         /\ encoder[k].mip_height = 1

\* ceil(dim / tile): the least n with n * tile >= dim.
CeilDiv(dim, tile) == CHOOSE n \in 0..dim : n * tile >= dim /\ (n - 1) * tile < dim

\* C8: every downsample dispatch (levels 1..L-1) and every horizontal- and
\* vertical-blur dispatch (levels 0..L-1) has workgroup counts
\* ceil(mip_width / 8) by ceil(mip_height / 8) by 1 for the clamped
\* dimensions of its level; a mip width of 13 gives 2, and after an 800x800
\* construction level 7 is 3x3 with a 1x1 grid.
C8_DispatchCounts ==
    pc \in DrawPcs =>
       \A k \in DOMAIN encoder :
          encoder[k].kind \in {"downsample", "horizontal_blur", "vertical_blur"} =>
             LET mw == ClampedMipDim(bloom_effect.half_width, encoder[k].level)
                 mh == ClampedMipDim(bloom_effect.half_height, encoder[k].level)
             IN  /\ encoder[k].x = CeilDiv(mw, 8)
                 /\ encoder[k].y = CeilDiv(mh, 8)
                 /\ encoder[k].z = 1
                 /\ mw = 13 => encoder[k].x = 2
                 /\ (/\ bloom_effect.full_width = 800
                     /\ bloom_effect.full_height = 800
                     /\ encoder[k].level = 7)
                    => /\ mw = 3 /\ mh = 3
                       /\ encoder[k].x = 1 /\ encoder[k].y = 1

\* A frame at 27x800: level 0 is 13 wide (2 workgroups) and level 7 is 3 high (1).
C8_Witness ==
    /\ pc = "draw_present"
    /\ bloom_effect.full_width = 27
    /\ bloom_effect.full_height = 800
    /\ \E k \in DOMAIN encoder :
         /\ encoder[k].kind = "horizontal_blur"
         /\ encoder[k].level = 0
         /\ encoder[k].mip_width = 13
         /\ encoder[k].x = 2
    /\ \E k \in DOMAIN encoder :
         /\ encoder[k].kind = "downsample"
         /\ encoder[k].level = 7
         /\ encoder[k].mip_height = 3
         /\ encoder[k].y = 1

\* The three chains of the bloom component: texture and per-level views.
Chains ==
    { [texture |-> bloom_effect.downsample_texture,
       views |-> bloom_effect.downsample_views],
      [texture |-> bloom_effect.horizontal_blur_texture,
       views |-> bloom_effect.horizontal_blur_views],
      [texture |-> bloom_effect.vertical_blur_texture,
       views |-> bloom_effect.vertical_blur_views] }

\* C9: after construction and after any sequence of resize calls the
\* downsample, horizontal-blur and vertical-blur chains have the same level
\* count L and the same dimensions at every level; no chain is at the new
\* size while another is at the old one.
C9_ChainsAgree ==
    pc \notin BloomResizePcs =>
       /\ Cardinality(Chains) = 3
       /\ \A a \in Chains, b \in Chains :
            /\ a.texture.width = b.texture.width
            /\ a.texture.height = b.texture.height
            /\ a.texture.mip_level_count = b.texture.mip_level_count
            /\ a.texture.gen = b.texture.gen
            /\ Len(a.views) = Len(b.views)
       /\ \A a \in Chains :
            /\ Len(a.views) = a.texture.mip_level_count
            /\ \A level \in 0..(Len(a.views) - 1) :
                 /\ a.views[level + 1].base_mip_level = level
                 /\ a.views[level + 1].label = a.texture.label
                 /\ a.views[level + 1].gen = a.texture.gen

\* Two resizes have returned and the chains are at a size other than the first.
C9_Witness ==
    /\ pc = "idle"
    /\ gen = 2
    /\ ~fatal
    /\ bloom_effect.vertical_blur_texture.gen = 2
    /\ bloom_effect.vertical_blur_texture.width = 13
    /\ bloom_effect.vertical_blur_texture.height = 1

\* The views bound by a sequence of bind groups.
BoundViews(bind_groups) ==
    UNION { {bind_groups[k].binding0, bind_groups[k].binding1} : k \in DOMAIN bind_groups }

\* The views bound by the persistent bind groups of the bloom component.
BloomBoundViews ==
    BoundViews(bloom_effect.downsample_bind_groups)
    \cup BoundViews(bloom_effect.horizontal_blur_bind_groups)
    \cup BoundViews(bloom_effect.vertical_blur_bind_groups)

\* C10: once BloomEffect::resize and ColorCorrectionEffect::resize have
\* returned, every persistent bind group (downsample, horizontal blur,
\* vertical blur, colour correction) binds only views of the textures the
\* most recent resize created, none of a texture that has been replaced.
C10_BindGroupsCurrent ==
    (pc \notin ResizePcs /\ ~fatal) =>
       /\ Len(bloom_effect.downsample_bind_groups) = max_level - 1
       /\ Len(bloom_effect.horizontal_blur_bind_groups) = max_level
       /\ Len(bloom_effect.vertical_blur_bind_groups) = max_level
       /\ \A v \in BloomBoundViews :
            /\ v.gen = gen
            /\ \E c \in Chains : v.label = c.texture.label /\ v.gen = c.texture.gen
       /\ color_correction_effect.bind_group.binding0.label = post_process_texture.label
       /\ color_correction_effect.bind_group.binding0.gen = post_process_texture.gen
       /\ post_process_texture.gen = gen

\* Two resizes have returned: every texture is of the second generation.
C10_Witness ==
    /\ pc = "idle"
    /\ gen = 2
    /\ ~fatal
    /\ post_process_texture.gen = 2
    /\ bloom_effect.downsample_texture.gen = 2

\* Every part of the bloom bundle (dimensions, chain textures, per-level
\* views, bind groups) belongs to the resize call numbered g at the
\* configured surface size.
BundleOfResize(g) ==
    /\ bloom_effect.full_width = surface_config.width
    /\ bloom_effect.full_height = surface_config.height
    /\ \A c \in Chains :
         /\ c.texture.gen = g
         /\ c.texture.width = bloom_effect.half_width
         /\ c.texture.height = bloom_effect.half_height
         /\ \A k \in DOMAIN c.views : c.views[k].gen = g
    /\ \A v \in BloomBoundViews : v.gen = g

\* C11: BloomEffect::resize replaces its bundle atomically: in every state
\* the bundle is either wholly the one the component had when the resize was
\* entered or wholly the one built by this resize, never new dimensions with
\* old textures, or new textures with old views or bind groups.
C11_BloomResizeAtomic ==
    \/ bloom_effect = before_resize.bloom_effect
    \/ BundleOfResize(gen)

\* C20: when BloomEffect::resize is called with dimensions whose half is 0,
\* it fails before mutating anything: at the failure no field of the bloom
\* component (dimensions, textures, views, bind groups) differs from its
\* value on entry to the resize.
C20_ResizeFailsFast ==
    fatal => bloom_effect = before_resize.bloom_effect

\* A chain level as the topology names it: which chain, which mip level.
ChainLevel(view) == <<view.label, view.base_mip_level>>

\* The wiring of a bind-group vector with the resource identities left out.
Wiring(bind_groups) ==
    [k \in DOMAIN bind_groups |->
        [read |-> ChainLevel(bind_groups[k].binding0),
         write |-> ChainLevel(bind_groups[k].binding1)]]

\* The bind-group topology and stored dimensions of a bloom component.
Topology(bloom) ==
    [downsample |-> Wiring(bloom.downsample_bind_groups),
     horizontal_blur |-> Wiring(bloom.horizontal_blur_bind_groups),
     vertical_blur |-> Wiring(bloom.vertical_blur_bind_groups),
     full |-> <<bloom.full_width, bloom.full_height>>,
     half |-> <<bloom.half_width, bloom.half_height>>]

\* C12: when BloomEffect::resize(W, H) has returned for the second time in a
\* row with the same (W, H), the component has the same number of downsample,
\* horizontal-blur and vertical-blur bind groups as after the first call, each
\* wiring the same (chain, level) read to the same (chain, level) write, and
\* the same stored full and half dimensions.
C12_ResizeIdempotent ==
    (/\ gen >= 2
     /\ new_size = before_resize.new_size
     /\ pc \notin BloomResizePcs
     /\ pc # "resize_bloom"
     /\ ~fatal) =>
       Topology(bloom_effect) = Topology(before_resize.bloom_effect)

\* Two resizes to 27x3 have returned; the second rebuilt every resource.
C12_Witness ==
    /\ gen = 2
    /\ pc = "idle"
    /\ ~fatal
    /\ new_size = <<27, 3>>
    /\ before_resize.new_size = <<27, 3>>
    /\ before_resize.bloom_effect.downsample_texture.gen = 1
    /\ bloom_effect.downsample_texture.gen = 2
    /\ bloom_effect.vertical_blur_bind_groups[1].binding1.gen = 2

\* The bind groups of a wiring that read one chain level and write another.
Wired(wiring, read, write) ==
    {k \in DOMAIN wiring : wiring[k] = [read |-> read, write |-> write]}

\* C13: after construction and after every resize, with L the level count:
\* for each i in 1..L-1 exactly one downsample bind group reads downsample
\* level i-1 and writes downsample level i (the one render uses for level i);
\* for each i in 0..L-1 exactly one horizontal-blur bind group reads
\* downsample level i and writes horizontal level i, and exactly one
\* vertical-blur bind group reads horizontal level i and writes vertical
\* level i; there are no other bind groups, and the wiring built by resize
\* equals the wiring the component had before (that of new).
C13_BindGroupTopology ==
    pc \notin BloomResizePcs =>
       LET L == bloom_effect.max_level
           t == Topology(bloom_effect)
       IN  /\ Len(t.downsample) = L - 1
           /\ Len(t.horizontal_blur) = L
           /\ Len(t.vertical_blur) = L
           /\ \A level \in 1..(L - 1) :
                Wired(t.downsample, <<"downsample", level - 1>>, <<"downsample", level>>)
                  = {(level - 1) + 1}
           /\ \A level \in 0..(L - 1) :
                /\ Wired(t.horizontal_blur, <<"downsample", level>>,
                         <<"horizontal_blur", level>>) = {level + 1}
                /\ Wired(t.vertical_blur, <<"horizontal_blur", level>>,
                         <<"vertical_blur", level>>) = {level + 1}
           /\ t.downsample = Topology(before_resize.bloom_effect).downsample
           /\ t.horizontal_blur = Topology(before_resize.bloom_effect).horizontal_blur
           /\ t.vertical_blur = Topology(before_resize.bloom_effect).vertical_blur

\* The first resize after construction has returned with rebuilt bind groups.
C13_Witness ==
    /\ gen = 1
    /\ pc = "idle"
    /\ ~fatal
    /\ new_size = <<3, 800>>
    /\ before_resize.bloom_effect.downsample_bind_groups[1].binding0.gen = 0
    /\ bloom_effect.downsample_bind_groups[1].binding0.gen = 1
    /\ bloom_effect.vertical_blur_bind_groups[max_level].binding1.gen = 1

\* min(L, 8)
ParticipatingLevels(L) == IF L < 8 THEN L ELSE 8

Dispatches(commands, kind) ==
    Cardinality({k \in DOMAIN commands : commands[k].kind = kind})

\* C15: a frame in which bloom apply has been recorded holds exactly 1
\* prefilter dispatch, L-1 downsample dispatches, L horizontal-blur and L
\* vertical-blur dispatches (2L blur dispatches) and 1 composite dispatch,
\* at every size reached through construction and resize; the submitted
\* stream holds the same counts.
C15_DispatchesPerFrame ==
    LET L == bloom_effect.max_level
    IN  /\ RenderRecorded =>
             /\ Dispatches(encoder, "prefilter") = 1
             /\ Dispatches(encoder, "downsample") = L - 1
             /\ Dispatches(encoder, "horizontal_blur") = L
             /\ Dispatches(encoder, "vertical_blur") = L
             /\ Dispatches(encoder, "horizontal_blur")
                  + Dispatches(encoder, "vertical_blur") = 2 * L
             /\ Dispatches(encoder, "composite") = 1
        /\ \A q \in DOMAIN Submits :
             /\ Dispatches(Submits[q].commands, "prefilter") = 1
             /\ Dispatches(Submits[q].commands, "downsample") = L - 1
             /\ Dispatches(Submits[q].commands, "horizontal_blur") = L
             /\ Dispatches(Submits[q].commands, "vertical_blur") = L
             /\ Dispatches(Submits[q].commands, "composite") = 1

\* A frame submitted at 3x3, where every level below 0 is clamped to 1x1.
C15_Witness ==
    /\ pc = "draw_present"
    /\ surface_config = [width |-> 3, height |-> 3]
    /\ bloom_effect.half_width = 1
    /\ Len(Submits) = 1
    /\ Dispatches(encoder, "downsample") = max_level - 1

IsBloomResize(c) == c.fn = "bloom_effect.resize"
\* The (width, height) passed to the most recent BloomEffect::new or ::resize.
LastBloomDims ==
    IF gen = 0
    THEN <<InitialWidth, InitialHeight>>
    ELSE LET c == SelectSeq(calls, IsBloomResize)[1] IN <<c.width, c.height>>

\* C16: the composite dispatch grid is ceil(W / 8) by ceil(H / 8) by 1,
\* where (W, H) are the full dimensions passed to the most recent new or
\* resize, not the half dimensions the mip chains are built from.
C16_CompositeGridFullResolution ==
    pc \in DrawPcs =>
       \A p \in DOMAIN encoder :
          encoder[p].kind = "composite" =>
             /\ encoder[p].mip_width = LastBloomDims[1]
             /\ encoder[p].mip_height = LastBloomDims[2]
             /\ encoder[p].x = CeilDiv(LastBloomDims[1], 8)
             /\ encoder[p].y = CeilDiv(LastBloomDims[2], 8)
             /\ encoder[p].z = 1

\* A composite at 27x800: 4 by 100 workgroups, where the half resolution
\* (13x400) would give 2 by 50.
C16_Witness ==
    /\ pc = "draw_present"
    /\ gen >= 1
    /\ LastBloomDims = <<27, 800>>
    /\ \E p \in DOMAIN encoder :
         /\ encoder[p].kind = "composite"
         /\ encoder[p].x = 4
         /\ encoder[p].y = 100

\* The (width, height) of a texture.
Extent(texture) == <<texture.width, texture.height>>

\* C17: whenever a frame is in progress, from the entry of WgpuCtx::draw on,
\* no resize is partially applied: the surface configuration, the depth
\* target, the scene target, the post-process target and the bloom full
\* dimensions are all at the same (width, height), all created by the most
\* recent resize (or by construction), and no resize has failed.
C17_FrameSeesCompleteResize ==
    pc \in DrawPcs =>
       LET size == <<surface_config.width, surface_config.height>>
       IN  /\ ~fatal
           /\ <<surface_configured.width, surface_configured.height>> = size
           /\ Extent(depth_texture) = size
           /\ Extent(render_texture) = size
           /\ Extent(post_process_texture) = size
           /\ <<bloom_effect.full_width, bloom_effect.full_height>> = size
           /\ depth_texture.gen = gen
           /\ render_texture.gen = gen
           /\ post_process_texture.gen = gen

\* A frame begins right after the second resize, to 3x27, has returned.
C17_Witness ==
    /\ pc = "draw_scene"
    /\ gen = 2
    /\ encoder = << >>
    /\ surface_config = [width |-> 3, height |-> 27]
    /\ before_resize.new_size # new_size

\* The whole-texture view of a render target.
TargetView(texture) == [label |-> texture.label, gen |-> texture.gen, base_mip_level |-> 0]

\* C18: within one frame, after any sequence of resizes: the scene pass
\* writes the current scene (render) target; the bloom render's prefilter
\* reads the scene target; the composite of bloom apply reads the scene
\* target and writes the post-process target; the colour-correction pass
\* reads the post-process target and writes the acquired surface view; the
\* UI overlay writes that same surface view.
C18_FrameDataFlow ==
    pc \in DrawPcs =>
       LET scene == TargetView(render_texture)
           post == TargetView(post_process_texture)
       IN  /\ scene.label = "render" /\ scene.gen = gen
           /\ post.label = "post_process" /\ post.gen = gen
           /\ \A p \in DOMAIN encoder :
                LET pass == encoder[p] IN
                /\ pass.kind = "scene" => scene \in pass.writes /\ post \notin pass.writes
                /\ pass.kind = "prefilter" =>
                     /\ pass.reads = {scene}
                     /\ \A v \in pass.writes : v.label = "downsample"
                /\ pass.kind = "composite" =>
                     /\ scene \in pass.reads
                     /\ post \notin pass.reads
                     /\ pass.writes = {post}
                /\ pass.kind = "color_correction" =>
                     /\ pass.reads = {post}
                     /\ Cardinality(pass.writes) = 1
                     /\ \A v \in pass.writes : v.label = "surface"
                /\ pass.kind = "ui" =>
                     \E c \in 1..(p - 1) :
                        /\ encoder[c].kind = "color_correction"
                        /\ pass.writes = encoder[c].writes
                /\ pass.kind \in {"downsample", "horizontal_blur", "vertical_blur"} =>
                     /\ scene \notin pass.reads \cup pass.writes
                     /\ post \notin pass.reads \cup pass.writes

\* A whole frame recorded after two resizes.
C18_Witness ==
    /\ pc = "draw_submit"
    /\ gen = 2
    /\ render_texture.gen = 2
    /\ \E p \in DOMAIN encoder :
         encoder[p].kind = "composite" /\ encoder[p].writes = {TargetView(post_process_texture)}
    /\ \E p \in DOMAIN encoder :
         encoder[p].kind = "color_correction"
         /\ encoder[p].reads = {TargetView(post_process_texture)}
    /\ encoder[Len(encoder)].kind = "ui"

VoxelSettingsWritten ==
    \E q \in DOMAIN queue :
       queue[q].op = "write_buffer" /\ queue[q].buffer = "voxel_settings_buffer"

BufferWrites(buffer) ==
    {q \in DOMAIN queue : queue[q].op = "write_buffer" /\ queue[q].buffer = buffer}

\* Positions of the queue holding a submit.
SubmitPositions == {q \in DOMAIN queue : queue[q].op = "submit"}

\* C21: in every frame the colour-correction uniform write is issued before
\* the colour-correction draw is recorded and before the frame's submit: once
\* the pass is in the encoder the write is already in the queue, every submit
\* is preceded in the queue by the write, and the last write before the
\* submit carries the values the frame passed to update_uniform.
C21_UniformWrittenBeforeDraw ==
    LET writes == BufferWrites("color_correction.uniform_buffer")
    IN  /\ (\E p \in DOMAIN encoder : encoder[p].kind = "color_correction")
             => writes # {}
        /\ \A s \in SubmitPositions :
             /\ \E w \in writes : w < s
             /\ \E p \in DOMAIN queue[s].commands :
                  queue[s].commands[p].kind = "color_correction"
             /\ \A w \in writes :
                  (w < s /\ \A v \in writes : v < s => v <= w)
                  => queue[w].data = [brightness |-> 1, contrast |-> 1, saturation |-> 1]

\* A submitted frame after a resize: the write sits in the queue before the submit.
C21_Witness ==
    /\ pc = "draw_present"
    /\ gen >= 1
    /\ \E w \in BufferWrites("color_correction.uniform_buffer"), s \in SubmitPositions :
         w < s

\* C23: for every RedrawRequested event that leads to a draw, the camera
\* uniforms are written exactly once, and before the frame's scene pass is
\* recorded: while the frame is in progress the queue holds exactly one write
\* of the camera buffer, it is the first operation of the handler, and it
\* precedes the submit of the stream holding the scene pass.
C23_CameraWrittenOnceBeforeScene ==
    pc \in DrawPcs =>
       /\ Cardinality(BufferWrites("camera_buffer")) = 1
       /\ 1 \in BufferWrites("camera_buffer")
       /\ (\E p \in DOMAIN encoder : encoder[p].kind = "scene")
            => BufferWrites("camera_buffer") # {}
       /\ \A s \in SubmitPositions : \A w \in BufferWrites("camera_buffer") : w < s

\* The scene pass of a frame after a resize has been recorded and submitted.
C23_Witness ==
    /\ pc = "draw_present"
    /\ gen >= 1
    /\ encoder[1].kind = "scene"
    /\ queue[1].buffer = "camera_buffer"
    /\ SubmitPositions # {}

\* Positions of the encoder holding a pass of one of the given kinds.
PassesOf(kinds) == {k \in DOMAIN encoder : encoder[k].kind \in kinds}

\* C24: the blur dispatches are recorded in ascending level order 0, 1, ...,
\* L-1; at each level the horizontal blur is recorded immediately before the
\* vertical blur of the same level; every blur dispatch is recorded after all
\* L-1 downsample dispatches and before the composite dispatch.
C24_BlurOrder ==
    LET L == bloom_effect.max_level
        blurs == PassesOf({"horizontal_blur", "vertical_blur"})
    IN  /\ \A k \in PassesOf({"horizontal_blur"}) :
             /\ encoder[k].level =
                  Cardinality({j \in PassesOf({"horizontal_blur"}) : j < k})
             /\ encoder[k].level \in 0..(L - 1)
             /\ k < Len(encoder) =>
                  /\ encoder[k + 1].kind = "vertical_blur"
                  /\ encoder[k + 1].level = encoder[k].level
        /\ \A k \in PassesOf({"vertical_blur"}) :
             /\ k > 1
             /\ encoder[k - 1].kind = "horizontal_blur"
             /\ encoder[k - 1].level = encoder[k].level
        /\ \A j \in blurs, k \in blurs : j < k => encoder[j].level <= encoder[k].level
        /\ blurs # {} => Cardinality(PassesOf({"downsample"})) = L - 1
        /\ \A k \in blurs :
             /\ \A d \in PassesOf({"downsample"}) : d < k
             /\ \A c \in PassesOf({"composite"}) : k < c
        /\ PassesOf({"composite"}) # {} => Cardinality(blurs) = 2 * L

\* A frame after a resize whose last blur pair (level L-1) and composite are recorded.
C24_Witness ==
    /\ gen >= 1
    /\ pc = "color_correction_update_uniform"
    /\ \E k \in PassesOf({"vertical_blur"}) :
         /\ encoder[k].level = max_level - 1
         /\ encoder[k - 1].kind = "horizontal_blur"
         /\ encoder[k + 1].kind = "composite"

\* The (chain, level) views and intermediate targets: everything a frame
\* reads that the frame itself has to produce.
IsFrameResource(view) ==
    view.label \in {"render", "post_process", "downsample", "horizontal_blur",
                    "vertical_blur"}

\* C25: in every frame, the first after construction or after a resize
\* included, every (chain, level) view or intermediate target read by a pass
\* has been written by an earlier pass of the same frame; the prefilter reads
\* what the scene pass wrote, each downsample and blur a level written
\* earlier, the composite vertical-blur levels written by the vertical blurs,
\* and colour correction the target written by the composite.
C25_ReadsAfterWrites ==
    \A k \in DOMAIN encoder :
       /\ \A v \in encoder[k].reads :
            /\ IsFrameResource(v)
            /\ \E j \in 1..(k - 1) : v \in encoder[j].writes
       /\ encoder[k].kind = "prefilter" =>
            \A v \in encoder[k].reads :
               \E j \in 1..(k - 1) : encoder[j].kind = "scene" /\ v \in encoder[j].writes
       /\ encoder[k].kind = "composite" =>
            \A v \in encoder[k].reads :
               v.label # "render" =>
                  \E j \in 1..(k - 1) :
                     encoder[j].kind = "vertical_blur" /\ v \in encoder[j].writes
       /\ encoder[k].kind = "color_correction" =>
            \A v \in encoder[k].reads :
               \E j \in 1..(k - 1) : encoder[j].kind = "composite" /\ v \in encoder[j].writes

\* The first frame after a resize: every chain texture is of this generation
\* and the frame has recorded its colour-correction pass.
C25_Witness ==
    /\ gen >= 1
    /\ pc = "imgui_new_frame"
    /\ bloom_effect.vertical_blur_texture.gen = gen
    /\ \E k \in DOMAIN encoder :
         /\ encoder[k].kind = "composite"
         /\ Cardinality(encoder[k].reads) = 9
    /\ encoder[Len(encoder)].kind = "color_correction"

\* The (texture, level) subresource a view covers; a texture is its label
\* and the generation that allocated it.
Subresource(view) == <<view.label, view.gen, view.base_mip_level>>

\* C26: no pass recorded in a frame reads and writes the same subresource:
\* in every bloom dispatch (prefilter, downsample, horizontal and vertical
\* blur, composite) the written (texture, level) differs from every
\* (texture, level) the dispatch reads, and the colour-correction pass never
\* writes the target it samples.
C26_NoReadWriteOverlap ==
    \A k \in DOMAIN encoder :
       LET read == {Subresource(v) : v \in encoder[k].reads}
           written == {Subresource(v) : v \in encoder[k].writes}
       IN  /\ read \cap written = {}
           /\ encoder[k].kind \in {"prefilter", "downsample", "horizontal_blur",
                                    "vertical_blur", "composite", "color_correction"}
                => read # {} /\ written # {}
           /\ encoder[k].kind = "downsample" =>
                \A a \in read, b \in written : a[1] = b[1] /\ a[2] = b[2] /\ a[3] # b[3]

\* A frame after a resize holding a downsample (same texture, adjacent
\* levels), both blurs, the composite and the colour-correction pass.
C26_Witness ==
    /\ gen >= 1
    /\ pc = "draw_submit"
    /\ PassesOf({"downsample"}) # {}
    /\ PassesOf({"vertical_blur"}) # {}
    /\ PassesOf({"composite"}) # {}
    /\ PassesOf({"color_correction"}) # {}

\* The 0-based index is within a Vec of the given length.
InBounds(index, length) == 0 <= index /\ index < length

\* C27: after construction and after any sequence of resizes every index
\* used by render and apply is in bounds: each chain has exactly L views,
\* there are exactly L-1 downsample bind groups and exactly L horizontal- and
\* L vertical-blur bind groups; render indexes downsample_bind_groups[i-1]
\* only for 1 <= i <= L-1 and the blur sets only for 0 <= i <= L-1; apply
\* indexes vertical_blur_views only at 0..7, which are below L.
C27_IndicesInBounds ==
    pc \notin BloomResizePcs =>
       LET L == bloom_effect.max_level
       IN  /\ \A c \in Chains : Len(c.views) = L
           /\ Len(bloom_effect.downsample_bind_groups) = L - 1
           /\ Len(bloom_effect.horizontal_blur_bind_groups) = L
           /\ Len(bloom_effect.vertical_blur_bind_groups) = L
           /\ pc = "bloom_downsample" =>
                /\ 1 <= i /\ i <= L - 1
                /\ InBounds(i - 1, Len(bloom_effect.downsample_bind_groups))
           /\ pc \in {"bloom_horizontal_blur", "bloom_vertical_blur"} =>
                /\ 0 <= i /\ i <= L - 1
                /\ InBounds(i, Len(bloom_effect.horizontal_blur_bind_groups))
                /\ InBounds(i, Len(bloom_effect.vertical_blur_bind_groups))
           /\ pc \in {"bloom_prefilter", "bloom_apply"} =>
                InBounds(0, Len(bloom_effect.downsample_views))
           /\ pc \in DrawPcs =>
                \A k \in DOMAIN encoder :
                   /\ encoder[k].kind = "downsample" =>
                        /\ 1 <= encoder[k].level /\ encoder[k].level <= L - 1
                        /\ InBounds(encoder[k].level - 1,
                                    Len(bloom_effect.downsample_bind_groups))
                   /\ encoder[k].kind \in {"horizontal_blur", "vertical_blur"} =>
                        InBounds(encoder[k].level, L)
                   /\ encoder[k].kind = "composite" =>
                        /\ DOMAIN encoder[k].slots = 0..7
                        /\ \A slot \in DOMAIN encoder[k].slots :
                             /\ InBounds(slot, Len(bloom_effect.vertical_blur_views))
                             /\ slot < L

\* The last iterations after two resizes: the downsample loop at i = L-1.
C27_Witness ==
    /\ gen = 2
    /\ pc = "bloom_downsample"
    /\ i = max_level - 1
    /\ Len(bloom_effect.downsample_bind_groups) = max_level - 1
    /\ bloom_effect.downsample_bind_groups[i].binding1.gen = 2

\* The kinds of pass that are compute dispatches.
ComputeKinds ==
    {"prefilter", "downsample", "horizontal_blur", "vertical_blur", "composite"}

\* C28: at every window size the orchestrator passes to the bloom component
\* (width and height clamped to >= 1), every compute dispatch of a frame
\* (prefilter, downsamples, blurs, composite) has a workgroup count of at
\* least 1 in x and in y (and in z).
C28_DispatchesNotEmpty ==
    \A k \in DOMAIN encoder :
       encoder[k].kind \in ComputeKinds =>
          /\ encoder[k].x >= 1
          /\ encoder[k].y >= 1
          /\ encoder[k].z >= 1
          /\ surface_config.width >= 1
          /\ surface_config.height >= 1

\* A whole frame at 3x2 (half resolution 1x1): every level is 1x1 and every
\* dispatch is a single workgroup.
C28_Witness ==
    /\ pc = "draw_submit"
    /\ surface_config = [width |-> 3, height |-> 2]
    /\ bloom_effect.half_width = 1
    /\ bloom_effect.half_height = 1
    /\ \E k \in DOMAIN encoder :
         /\ encoder[k].kind = "downsample"
         /\ encoder[k].level = max_level - 1
         /\ encoder[k].x = 1
         /\ encoder[k].y = 1
    /\ \E k \in DOMAIN encoder : encoder[k].kind = "prefilter" /\ encoder[k].x = 1

\* C22: ColorCorrectionEffect::apply is idempotent. For every recorded
\* colour-correction pass, every uniform value and every input content,
\* executing the pass on its own output leaves that output unchanged, and
\* executing it on two different previous target contents gives the same
\* content: the result does not depend on what the target held before.
C22_ApplyIdempotent ==
    \A k \in DOMAIN encoder :
       encoder[k].kind = "color_correction" =>
          \A quad \in SUBSET Pixels, uniform \in UniformContents,
             input \in InputContents, previous \in TargetContents :
             LET once == ColorCorrectionOutput(encoder[k], quad, uniform, input, previous)
             IN /\ ColorCorrectionOutput(encoder[k], quad, uniform, input, once) = once
                /\ \A other \in TargetContents :
                      ColorCorrectionOutput(encoder[k], quad, uniform, input, other) = once

\* apply has just recorded its pass on the surface view, after the uniform
\* write of the frame, and the pass changes what the target held.
C22_Witness ==
    /\ pc = "imgui_new_frame"
    /\ encoder[Len(encoder)].kind = "color_correction"
    /\ encoder[Len(encoder)].writes = {surface_texture_view}
    /\ BufferWrites("color_correction.uniform_buffer") # {}
    /\ \E previous \in TargetContents :
         ColorCorrectionOutput(encoder[Len(encoder)], Pixels, ColorCorrectionUniform,
                               "input0", previous) # previous

\* C29: input edge detection. For every key, is_key_pressed holds exactly
\* when the state last recorded for the key is Pressed and the snapshot taken
\* by the last update() was not Pressed; is_key_released holds exactly when
\* the last recorded state is Released and that snapshot was Pressed; the two
\* never hold together; and from an update() until the next handle_key_input
\* no key is reported as pressed or released. The same holds for the mouse
\* buttons with handle_mouse_button.
C29_EdgeDetection ==
    /\ \A key \in KeyCodes :
          /\ is_key_pressed(input_system, key)
                <=> /\ input_history.key_latest[key] = "Pressed"
                    /\ input_history.key_snapshot[key] # "Pressed"
          /\ is_key_released(input_system, key)
                <=> /\ input_history.key_latest[key] = "Released"
                    /\ input_history.key_snapshot[key] = "Pressed"
          /\ ~(is_key_pressed(input_system, key) /\ is_key_released(input_system, key))
          /\ input_history.keys_fresh =>
                /\ ~is_key_pressed(input_system, key)
                /\ ~is_key_released(input_system, key)
    /\ \A button \in MouseButtons :
          /\ is_mouse_button_pressed(input_system, button)
                <=> /\ input_history.mouse_latest[button] = "Pressed"
                    /\ input_history.mouse_snapshot[button] # "Pressed"
          /\ is_mouse_button_released(input_system, button)
                <=> /\ input_history.mouse_latest[button] = "Released"
                    /\ input_history.mouse_snapshot[button] = "Pressed"
          /\ ~(/\ is_mouse_button_pressed(input_system, button)
               /\ is_mouse_button_released(input_system, button))
          /\ input_history.mouse_fresh =>
                /\ ~is_mouse_button_pressed(input_system, button)
                /\ ~is_mouse_button_released(input_system, button)

\* Between two frames: KeyW was held at the last update() and has been
\* released since (a release edge), while the left button, pressed before
\* that update(), is held with no edge reported.
C29_Witness ==
    /\ pc = "idle"
    /\ is_key_released(input_system, "KeyW")
    /\ ~input_history.keys_fresh
    /\ input_history.mouse_fresh
    /\ is_mouse_button_down(input_system, "Left")
    /\ ~is_mouse_button_pressed(input_system, "Left")

\* C30: whenever the most recent keyboard event the window delivered for a
\* key is a release, is_key_down of that key is false in the frame that
\* follows, whether or not the UI overlay was capturing the keyboard when the
\* release arrived.
C30_ReleasedKeyNotDown ==
    \A key \in KeyCodes :
       (pc \in DrawPcs /\ input_history.key_delivered[key] = "Released")
          => ~is_key_down(input_system, key)
====
